---- MODULE Spec2Model ----
(***************************************************************************)
(* Split-operator integrator of amoniaco.py: the piecewise potential V,    *)
(* the state initialiser init, the propagators Top and Vop, and the loop   *)
(* runsplit with its three diagnostic histories.                           *)
(*                                                                         *)
(* Units.  Times and sub-step durations are counted in half time steps,    *)
(* so that dt = 2 and dt/2 = 1 are integers.  Positions are counted in     *)
(* hundredths of a nanometre (a = 7, b = 4) and energies in hundredths     *)
(* (V0 = 25, V_out = 10^8).  Arithmetic is exact: rounding of the floating *)
(* point accumulations of the program is not represented.                  *)
(*                                                                         *)
(* A wavefunction array is represented by the sequence of operators that   *)
(* produced it from the normalised Gaussian: the element "psi0" followed   *)
(* by one element per kinetic ("T") or potential ("V") factor applied.     *)
(* Array objects live in heap; a reference is an index into heap.          *)
(***************************************************************************)
EXTENDS Integers, Sequences, FiniteSets

VARIABLES
  Nt, f,                              \* run configuration (lines 170, 172)
  pc,                                 \* position of the main script / runsplit
  heap,                               \* array objects: reference -> value
  psi_main,                           \* the array init returned, argument of runsplit
  psi,                                \* runsplit's local name psi (a reference)
  nt, na, t_current,                  \* runsplit's loop variables
  density_prob, time_arr, norm_arr,   \* the three diagnostic histories
  writes,                             \* every element assignment to a history, in order
  ret,                                \* the reference runsplit returned
  x_in, t_in, V_array, V_neg, vpc,    \* an evaluation of V on x_in and on -x_in
  tpc                                 \* position of the kinetic round-trip scenario

vars == <<Nt, f, pc, heap, psi_main, psi, nt, na, t_current,
          density_prob, time_arr, norm_arr, writes, ret,
          x_in, t_in, V_array, V_neg, vpc, tpc>>

runVars == <<Nt, f, pc, heap, psi_main, psi, nt, na, t_current,
             density_prob, time_arr, norm_arr, writes, ret>>
potVars == <<x_in, t_in, V_array, V_neg, vpc>>
others == <<x_in, t_in, V_array, V_neg, vpc, tpc>>

----------------------------------------------------------------------------
(* Bounds of the model *)

MaxNt == 6          \* Nt ranges over 0..MaxNt
MaxF == 3           \* f ranges over 1..MaxF
MaxLen == 2         \* position arrays handed to V have 1..MaxLen elements
MaxX == 10          \* positions range over -MaxX..MaxX (hundredths of nm)
MaxTau == 3         \* sub-step durations of the round-trip scenario: -MaxTau..MaxTau
MaxTops == 3        \* kinetic applications in the round-trip scenario
MaxT == 2           \* time arguments handed to V: 0..MaxT
Nx == 4             \* number of momentum modes inspected

(* Program constants *)

dt == 2                 \* one time step, in half steps
hbar == 1
m == 1
V0 == 25                \* 0.25
a == 7                  \* 0.07 nm
b == 4                  \* 0.04 nm
V_out == 100000000      \* 1e6

----------------------------------------------------------------------------
(* Values *)

Psi0Value == << [op |-> "psi0", tau |-> 0, tV |-> 0] >>
KineticOp(tau) == [op |-> "T", tau |-> tau, tV |-> 0]
PotentialOp(tau, tv) == [op |-> "V", tau |-> tau, tV |-> tv]

Abs2(v) == [fn |-> "abs2", psi |-> v]
SumAbs2Dx(v) == [fn |-> "sum_abs2_dx", psi |-> v]
ZeroEntry == [fn |-> "zeros", psi |-> << >>]

Zeros(M, z) == [i \in 0 .. (M - 1) |-> z]

\* A history that lacks the slot of the initial state
NumSamples_NoInitial(N, stride) == N \div stride

\* Nt//f + 1, lines 66-68
NumSamples(N, stride) == (N \div stride) + 1

NoArray == << >>

----------------------------------------------------------------------------
(* Propagators *)

\* A kinetic propagator that multiplies its argument in place, as Vop does
Top_InPlace(h, r, tau) ==
  [heap |-> [h EXCEPT ![r] = Append(@, KineticOp(tau))], ref |-> r]

\* Top(psi, dt): fft, phase multiplication on the transform, ifft.  The
\* result of ifft is a new array; the argument is only read.  The transform
\* psi_k and k_vec are temporaries of the call.
Top(h, r, tau) ==
  [heap |-> Append(h, Append(h[r], KineticOp(tau))), ref |-> Len(h) + 1]

\* Vop(psi, x, t, dt): psi *= exp(-1j * V(x, t + dt/2) * dt / hbar); return psi
Vop(h, r, tref, tau) ==
  [heap |-> [h EXCEPT ![r] = Append(@, PotentialOp(tau, tref + (tau \div 2)))],
   ref  |-> r]

\* An un-wind that lost its sign
UnwindTau_Positive == dt \div 2

\* -dt/2, line 97
UnwindTau == -(dt \div 2)

\* dt/2, line 103
CloseTau == dt \div 2

\* A time accumulator that restarts from zero in every outer iteration
StartTime_Zero(arr, k) == 0

\* t_current = time_arr[nt], line 98
StartTime(arr, k) == arr[k]

----------------------------------------------------------------------------
(* The main script: init(), then runsplit(psi) *)

RunInit ==
  /\ Nt \in 0 .. MaxNt
  /\ f \in 1 .. MaxF
  /\ pc = "start"
  /\ heap = << >>
  /\ psi_main = 0
  /\ psi = 0
  /\ nt = 0
  /\ na = 0
  /\ t_current = 0
  /\ density_prob = NoArray
  /\ time_arr = NoArray
  /\ norm_arr = NoArray
  /\ writes = << >>
  /\ ret = 0

PotIdle ==
  /\ x_in = << >>
  /\ t_in = 0
  /\ V_array = << >>
  /\ V_neg = << >>
  /\ vpc = "idle"

TopIdle == tpc = "idle"

Init == RunInit /\ PotIdle /\ TopIdle

Wr(arr, idx, by) == [arr |-> arr, idx |-> idx, by |-> by]

\* init(), lines 53-72, called at line 183
CallInit ==
  /\ pc = "start"
  /\ heap' = << Psi0Value >>
  /\ psi_main' = 1
  /\ density_prob' = [Zeros(NumSamples(Nt, f), ZeroEntry) EXCEPT ![0] = Abs2(Psi0Value)]
  /\ time_arr' = Zeros(NumSamples(Nt, f), 0)
  /\ norm_arr' = [Zeros(NumSamples(Nt, f), ZeroEntry) EXCEPT ![0] = SumAbs2Dx(Psi0Value)]
  /\ writes' = << Wr("density_prob", 0, "init"), Wr("norm_arr", 0, "init") >>
  /\ pc' = "ready"
  /\ UNCHANGED <<Nt, f, psi, nt, na, t_current, ret>>
  /\ UNCHANGED others

\* runsplit(psi) is entered, lines 186 and 94-95
RunsplitEnter ==
  /\ pc = "ready"
  /\ psi' = psi_main
  /\ nt' = 0
  /\ pc' = "outer"
  /\ UNCHANGED <<Nt, f, heap, psi_main, na, t_current,
                 density_prob, time_arr, norm_arr, writes, ret>>
  /\ UNCHANGED others

\* lines 96-98: the next value of range(0, Nt//f), the kinetic un-wind, the
\* time accumulator
OuterBegin ==
  /\ pc = "outer"
  /\ nt < Nt \div f
  /\ LET r == Top(heap, psi, UnwindTau)
     IN  /\ heap' = r.heap
         /\ psi' = r.ref
  /\ t_current' = StartTime(time_arr, nt)
  /\ na' = 0
  /\ pc' = "inner"
  /\ UNCHANGED <<Nt, f, psi_main, nt, density_prob, time_arr, norm_arr, writes, ret>>
  /\ UNCHANGED others

\* lines 99-101: the next value of range(f), t_current += dt, psi = Top(psi, dt)
InnerTop ==
  /\ pc = "inner"
  /\ na < f
  /\ t_current' = t_current + dt
  /\ LET r == Top(heap, psi, dt)
     IN  /\ heap' = r.heap
         /\ psi' = r.ref
  /\ pc' = "vop"
  /\ UNCHANGED <<Nt, f, psi_main, nt, na, density_prob, time_arr, norm_arr, writes, ret>>
  /\ UNCHANGED others

\* line 102: psi = Vop(psi, x, t_current, dt)
InnerVop ==
  /\ pc = "vop"
  /\ LET r == Vop(heap, psi, t_current, dt)
     IN  /\ heap' = r.heap
         /\ psi' = r.ref
  /\ na' = na + 1
  /\ pc' = "inner"
  /\ UNCHANGED <<Nt, f, psi_main, nt, t_current, density_prob, time_arr, norm_arr,
                 writes, ret>>
  /\ UNCHANGED others

\* An element assignment arr[i] = v; an index outside the array raises in
\* the program, here the array is left as it is and the write is logged.
Store(arr, i, v) == IF i \in DOMAIN arr THEN [arr EXCEPT ![i] = v] ELSE arr

\* lines 103-106: the closing half step and the three records of slot nt+1
OuterEnd ==
  /\ pc = "inner"
  /\ na = f
  /\ LET r == Top(heap, psi, CloseTau)
     IN  /\ heap' = r.heap
         /\ psi' = r.ref
         /\ norm_arr' = Store(norm_arr, nt + 1, SumAbs2Dx(r.heap[r.ref]))
         /\ density_prob' = Store(density_prob, nt + 1, Abs2(r.heap[r.ref]))
  /\ time_arr' = Store(time_arr, nt + 1, t_current)
  /\ writes' = writes \o << Wr("norm_arr", nt + 1, "runsplit"),
                            Wr("density_prob", nt + 1, "runsplit"),
                            Wr("time_arr", nt + 1, "runsplit") >>
  /\ nt' = nt + 1
  /\ pc' = "outer"
  /\ UNCHANGED <<Nt, f, psi_main, na, t_current, ret>>
  /\ UNCHANGED others

\* lines 107-108: range(0, Nt//f) is exhausted, return psi
RunsplitReturn ==
  /\ pc = "outer"
  /\ nt >= Nt \div f
  /\ ret' = psi
  /\ pc' = "done"
  /\ UNCHANGED <<Nt, f, heap, psi_main, psi, nt, na, t_current,
                 density_prob, time_arr, norm_arr, writes>>
  /\ UNCHANGED others

Next ==
  \/ CallInit
  \/ RunsplitEnter
  \/ OuterBegin
  \/ InnerTop
  \/ InnerVop
  \/ OuterEnd
  \/ RunsplitReturn

Spec == Init /\ [][Next]_vars

----------------------------------------------------------------------------
(* The potential V(x, t, V0, type), lines 23-48 *)

Abs(v) == IF v < 0 THEN -v ELSE v

\* np.empty_like(x): an array of the shape of x holding whatever the
\* allocator left there (mem)
empty_like(x, mem) == [i \in DOMAIN x |-> mem[i]]

\* arr[mask] = val
MaskAssign(arr, mask, val) == [i \in DOMAIN arr |-> IF mask[i] THEN val ELSE arr[i]]

\* np.abs(x) > a, line 41
cond_outer(x) == [i \in DOMAIN x |-> Abs(x[i]) > a]

\* (np.abs(x) <= a) & (np.abs(x) > b), line 43
cond_wells(x) == [i \in DOMAIN x |-> Abs(x[i]) <= a /\ Abs(x[i]) > b]

\* A barrier that excludes its boundary
cond_barrier_strict(x) == [i \in DOMAIN x |-> Abs(x[i]) < b]

\* A barrier tested on x instead of |x|
cond_barrier_signed(x) == [i \in DOMAIN x |-> x[i] <= b]

\* np.abs(x) <= b, line 46
cond_barrier(x) == [i \in DOMAIN x |-> Abs(x[i]) <= b]

V(x, t, v0, type, mem) ==
  LET V_1 == MaskAssign(empty_like(x, mem), cond_outer(x), V_out)
      V_2 == MaskAssign(V_1, cond_wells(x), 0)
      V_3 == MaskAssign(V_2, cond_barrier(x), v0)
  IN  V_3

Neg(x) == [i \in DOMAIN x |-> -x[i]]

Positions == UNION { [1 .. n -> (-MaxX) .. MaxX] : n \in 1 .. MaxLen }
Garbage == {0, -1}

PotInit ==
  /\ x_in \in Positions
  /\ t_in \in 0 .. MaxT
  /\ V_array = << >>
  /\ V_neg = << >>
  /\ vpc = "call"

RunIdle ==
  /\ Nt = 0
  /\ f = 1
  /\ pc = "idle"
  /\ heap = << >>
  /\ psi_main = 0
  /\ psi = 0
  /\ nt = 0
  /\ na = 0
  /\ t_current = 0
  /\ density_prob = NoArray
  /\ time_arr = NoArray
  /\ norm_arr = NoArray
  /\ writes = << >>
  /\ ret = 0

\* V(x, t, V0, type=6)
EvalV ==
  /\ vpc = "call"
  /\ \E mem \in [DOMAIN x_in -> Garbage] : V_array' = V(x_in, t_in, V0, 6, mem)
  /\ vpc' = "mirror"
  /\ UNCHANGED <<x_in, t_in, V_neg, tpc>>
  /\ UNCHANGED runVars

\* V(-x, t, V0, type=6)
EvalVNeg ==
  /\ vpc = "mirror"
  /\ \E mem \in [DOMAIN x_in -> Garbage] : V_neg' = V(Neg(x_in), t_in, V0, 6, mem)
  /\ vpc' = "done"
  /\ UNCHANGED <<x_in, t_in, V_array, tpc>>
  /\ UNCHANGED runVars

InitV == RunIdle /\ PotInit /\ TopIdle

NextV ==
  \/ EvalV
  \/ EvalVNeg

SpecV == InitV /\ [][NextV]_vars

----------------------------------------------------------------------------
(* The kinetic propagator alone, lines 77-82 *)

\* np.fft.fftfreq(n, d)[j] in units of 1/(n*d)
fftfreq(j, n) == IF j < ((n - 1) \div 2) + 1 THEN j ELSE j - n

\* k_vec[j] in units of 2*pi/(Nx*dx)
k_vec(j) == fftfreq(j, Nx)

\* A phase that depends on the magnitude of the duration only
PhaseNum_abs(j, tau) == -(hbar * k_vec(j) * k_vec(j) * Abs(tau))

\* The exponent of line 80 for mode j, as the numerator over 2*m:
\* -1j * (hbar * k_vec**2 * dt) / (2 * m)
PhaseNum(j, tau) == -(hbar * k_vec(j) * k_vec(j) * tau)

RECURSIVE KPhase(_, _)
\* The kinetic phase mode j has accumulated in value v, over 2*m
KPhase(v, j) ==
  IF v = << >> THEN 0
  ELSE KPhase(SubSeq(v, 1, Len(v) - 1), j)
       + (IF v[Len(v)].op = "T" THEN PhaseNum(j, v[Len(v)].tau) ELSE 0)

Modes == 0 .. (Nx - 1)

TopInit ==
  /\ tpc = "apply"
  /\ heap = << Psi0Value >>
  /\ psi = 1
  /\ psi_main = 1
  /\ Nt = 0
  /\ f = 1
  /\ pc = "idle"
  /\ nt = 0
  /\ na = 0
  /\ t_current = 0
  /\ density_prob = NoArray
  /\ time_arr = NoArray
  /\ norm_arr = NoArray
  /\ writes = << >>
  /\ ret = 0

\* psi = Top(psi, tau) for a real tau of either sign
ApplyTop ==
  /\ tpc = "apply"
  /\ Len(heap) <= MaxTops
  /\ \E tau \in (-MaxTau) .. MaxTau :
       LET r == Top(heap, psi, tau)
       IN  /\ heap' = r.heap
           /\ psi' = r.ref
  /\ UNCHANGED <<Nt, f, pc, psi_main, nt, na, t_current,
                 density_prob, time_arr, norm_arr, writes, ret, tpc>>
  /\ UNCHANGED potVars

InitTop == TopInit /\ PotIdle

NextTop == ApplyTop

SpecTop == InitTop /\ [][NextTop]_vars

----------------------------------------------------------------------------
(* Auxiliary operators of the properties *)

Shape(o) == <<o.op, o.tau>>

Shapes(v) == [i \in DOMAIN v |-> Shape(v[i])]

\* Adjacent kinetic factors compose by adding their durations
MergeInto(acc, o) ==
  IF acc # << >> /\ acc[Len(acc)][1] = "T" /\ o[1] = "T"
  THEN [acc EXCEPT ![Len(acc)] = <<"T", @[2] + o[2]>>]
  ELSE Append(acc, o)

RECURSIVE MergeK(_, _)
MergeK(s, acc) == IF s = << >> THEN acc ELSE MergeK(Tail(s), MergeInto(acc, Head(s)))

Merged(s) == MergeK(s, << >>)

StrangStep == << <<"T", dt \div 2>>, <<"V", dt>>, <<"T", dt \div 2>> >>

RECURSIVE Repeat(_, _)
Repeat(s, n) == IF n = 0 THEN << >> ELSE s \o Repeat(s, n - 1)

RECURSIVE Duration(_, _)
\* Total duration of the factors of kind k in a sequence of shapes
Duration(s, k) ==
  IF s = << >> THEN 0
  ELSE (IF Head(s)[1] = k THEN Head(s)[2] ELSE 0) + Duration(Tail(s), k)

IsPrefix(u, v) == Len(u) <= Len(v) /\ SubSeq(v, 1, Len(u)) = u

\* The operators one outer iteration applied: what slot k's wavefunction
\* has beyond slot k-1's
IterOps(k) ==
  Shapes(SubSeq(density_prob[k].psi, Len(density_prob[k - 1].psi) + 1,
                Len(density_prob[k].psi)))

NumV(v) == Cardinality({i \in DOMAIN v : v[i].op = "V"})

LastSlot == Nt \div f

Histories == {"density_prob", "time_arr", "norm_arr"}

WritesTo(arr) == SelectSeq(writes, LAMBDA w : w.arr = arr)

Written(arr) == {writes[i].idx : i \in {j \in DOMAIN writes : writes[j].arr = arr}}

TimesWritten(arr, k) ==
  Cardinality({i \in DOMAIN writes : writes[i].arr = arr /\ writes[i].idx = k})

Increasing(s) == \A i \in 1 .. (Len(s) - 1) : s[i].idx < s[i + 1].idx

----------------------------------------------------------------------------
(* C1: in every completed outer iteration of runsplit, for every stride f, *)
(* the factors applied -- Top(-dt/2), f times [Top(dt), Vop(dt)],          *)
(* Top(dt/2) -- are, once adjacent kinetic factors are merged by adding    *)
(* their durations, the Strang sequence [T(dt/2), V(dt), T(dt/2)] repeated *)
(* f times, and the kinetic and the potential durations both total f*dt.   *)
C1_StrangEquivalence ==
  pc \notin {"start", "idle"} =>
    \A k \in 1 .. nt :
      /\ IsPrefix(density_prob[k - 1].psi, density_prob[k].psi)
      /\ Merged(IterOps(k)) = Merged(Repeat(StrangStep, f))
      /\ Duration(IterOps(k), "T") = f * dt
      /\ Duration(IterOps(k), "V") = f * dt

C1_Witness == pc = "done" /\ f >= 2 /\ nt >= 2

(* C2: a completed run has executed Nt inner steps and the last diagnostic *)
(* slot records the time Nt*dt.                                            *)
C2_ReachesNt ==
  pc = "done" =>
    /\ NumV(heap[ret]) = Nt
    /\ time_arr[LastSlot] = Nt * dt

(* C3 as stated: the histories have floor(Nt/f)+1 slots, every write is to *)
(* an index in range, each history is written in strictly increasing index *)
(* order, slot 0 is written by init and the others by runsplit, and at the *)
(* end every slot of the histories named has been written exactly once.    *)
HistoryDiscipline(initWritten) ==
  pc \notin {"start", "idle"} =>
    /\ DOMAIN density_prob = 0 .. LastSlot
    /\ DOMAIN time_arr = 0 .. LastSlot
    /\ DOMAIN norm_arr = 0 .. LastSlot
    /\ \A i \in DOMAIN writes :
         /\ writes[i].idx \in 0 .. LastSlot
         /\ writes[i].by = "init" <=> writes[i].idx = 0
         /\ writes[i].by = "runsplit" <=> writes[i].idx \in 1 .. LastSlot
    /\ \A arr \in Histories : Increasing(WritesTo(arr))
    /\ \A arr \in initWritten : TimesWritten(arr, 0) = 1
    /\ \A arr \in Histories : \A k \in 1 .. nt : TimesWritten(arr, k) = 1
    /\ pc = "done" =>
         /\ \A arr \in initWritten : Written(arr) = 0 .. LastSlot
         /\ \A arr \in Histories : 1 .. LastSlot \subseteq Written(arr)

----------------------------------------------------------------------------
(* C4: V(x, t) is V_out where |x| > a, 0 where b < |x| <= a and V0 where   *)
(* |x| <= b, whatever t is; every element is assigned by exactly one of    *)
(* the three rules.                                                        *)
C4_Regions ==
  vpc \in {"mirror", "done"} =>
    \A i \in DOMAIN x_in :
      LET ax == IF x_in[i] < 0 THEN -x_in[i] ELSE x_in[i]
      IN  /\ V_array[i] = (IF ax > a THEN V_out ELSE IF ax > b THEN 0 ELSE V0)
          /\ Cardinality({r \in {"outer", "wells", "barrier"} :
                 \/ r = "outer" /\ cond_outer(x_in)[i]
                 \/ r = "wells" /\ cond_wells(x_in)[i]
                 \/ r = "barrier" /\ cond_barrier(x_in)[i]}) = 1

C4_Witness ==
  /\ vpc = "done"
  /\ t_in > 0
  /\ x_in = <<b, -a>>
  /\ V_array = <<V0, 0>>

(* C5: V(x, t) = V(-x, t) for every x and t, the region boundaries         *)
(* included.                                                               *)
C5_Symmetric == vpc = "done" => V_array = V_neg

C5_Witness ==
  /\ vpc = "done"
  /\ x_in = <<a, -b>>
  /\ V_neg = <<0, V0>>

----------------------------------------------------------------------------
SumTau(v) == Duration(Shapes(v), "T")

(* C7: kinetic sub-steps compose additively in every momentum mode: the    *)
(* phase accumulated over successive Top applications is the phase of one  *)
(* application over the summed duration; Top(tau1) then Top(tau2) adds the *)
(* phase of Top(tau1 + tau2); and Top(tau) then Top(-tau) leaves every     *)
(* mode's phase as it was, for tau of either sign or zero.                 *)
C7_KineticRoundTrip ==
  tpc = "apply" =>
    \A j \in Modes :
      /\ KPhase(heap[psi], j) = PhaseNum(j, SumTau(heap[psi]))
      /\ \A r \in DOMAIN heap :
           (r + 2) \in DOMAIN heap =>
             LET tau1 == heap[r + 1][Len(heap[r + 1])].tau
                 tau2 == heap[r + 2][Len(heap[r + 2])].tau
             IN  /\ KPhase(heap[r + 2], j) = KPhase(heap[r], j) + PhaseNum(j, tau1 + tau2)
                 /\ tau2 = -tau1 => KPhase(heap[r + 2], j) = KPhase(heap[r], j)

C7_Witness ==
  /\ tpc = "apply"
  /\ Len(heap) = 3
  /\ heap[2][2].tau = -2
  /\ heap[3][3].tau = 2
  /\ \A j \in Modes : KPhase(heap[3], j) = 0
  /\ \E j \in Modes : KPhase(heap[2], j) # 0

----------------------------------------------------------------------------
\* The number of potential factors among the first i factors of v
VIndex(v, i) == Cardinality({j \in 1 .. i : v[j].op = "V"})

(* C8: the n-th inner step advances the time from (n-1)*dt to n*dt, and    *)
(* the potential it applies is sampled at the midpoint (n-1)*dt + dt/2.    *)
C8_MidpointSampling ==
  \A r \in DOMAIN heap :
    \A i \in DOMAIN heap[r] :
      heap[r][i].op = "V" =>
        heap[r][i].tV = (VIndex(heap[r], i) - 1) * dt + (dt \div 2)

----------------------------------------------------------------------------
(* C9: slot k is written after exactly k*f inner steps and records the     *)
(* time k*f*dt; density and norm of a slot are taken from the same         *)
(* wavefunction; recorded times increase strictly with the slot index; the *)
(* accumulator of an outer iteration starts from the previous slot's time. *)
C9_SamplingCadence ==
  pc \notin {"start", "idle"} =>
    /\ \A k \in 0 .. nt :
         /\ density_prob[k] = Abs2(density_prob[k].psi)
         /\ norm_arr[k] = SumAbs2Dx(density_prob[k].psi)
         /\ NumV(density_prob[k].psi) = k * f
         /\ time_arr[k] = k * f * dt
    /\ \A k \in 0 .. nt : \A l \in 0 .. nt : k < l => time_arr[k] < time_arr[l]
    /\ pc = "outer" => density_prob[nt].psi = heap[psi] /\ NumV(heap[psi]) = nt * f
    /\ pc = "inner" => t_current = time_arr[nt] + na * dt
    /\ pc = "vop" => t_current = time_arr[nt] + (na + 1) * dt

C9_Witness ==
  /\ pc = "done"
  /\ f >= 2
  /\ nt >= 2
  /\ time_arr[2] = 2 * f * dt

----------------------------------------------------------------------------
TopFrame ==
  pc \in {"outer", "inner"} /\ pc' # "done" =>
    /\ psi' \notin DOMAIN heap
    /\ psi' \in DOMAIN heap'
    /\ \A r \in DOMAIN heap : heap'[r] = heap[r]

VopFrame ==
  pc = "vop" =>
    /\ psi' = psi
    /\ DOMAIN heap' = DOMAIN heap
    /\ heap'[psi] # heap[psi]
    /\ \A r \in DOMAIN heap \ {psi} : heap'[r] = heap[r]

(* C10: Top leaves every existing array as it is and returns a new one;    *)
(* Vop changes the array it is given and returns that same array; every    *)
(* Vop acts on the array the preceding Top created, so the array handed to *)
(* runsplit is never modified; runsplit returns that very array exactly    *)
(* when floor(Nt/f) = 0.                                                   *)
C10_Aliasing ==
  /\ [][TopFrame]_vars
  /\ [][VopFrame]_vars
  /\ [](pc = "vop" => psi = Len(heap) /\ psi # psi_main)
  /\ [](pc \notin {"start", "idle"} => heap[psi_main] = Psi0Value)
  /\ [](pc = "done" => (ret = psi_main <=> Nt \div f = 0))

C10_Witness ==
  /\ pc = "done"
  /\ Nt \div f >= 2
  /\ ret # psi_main
  /\ heap[psi_main] = Psi0Value
  /\ NumV(heap[ret]) >= 2

====
